---- MODULE Spec2Model ----
(***************************************************************************)
(* A model of rgilks/galacto: the frame orchestrator (src/src/lib.rs), the *)
(* input aggregator (src/src/input.rs), the camera (src/src/camera.rs) and *)
(* the host side of the simulation engine (src/src/simulation.rs).         *)
(*                                                                         *)
(* Number representation.  The program computes in f32; the model uses     *)
(* integers in fixed units:                                                *)
(*   time stamps and dt      milliseconds      (0.016 s = 16, 0.033 s = 33)*)
(*   Camera.scale            1/1000            (1.0 = 1000, 0.01 = 10)     *)
(*   Camera.position         1/100 world unit  (800.0 = 80000)             *)
(*   rotation                1/100 radian      (1.5 = 150)                 *)
(*   pointer and touch positions, pinch distances: whole pixels, as the    *)
(*   DOM delivers client_x / client_y                                      *)
(*   wheel delta_y, zoom_delta and the argument of Camera.zoom: 1/10       *)
(*   (the dead-zone bound 0.1 = 1, zoom(-1000) = -10000)                   *)
(*   aspect_ratio            a reduced fraction <<n, d>>; <<1, 0>> is +inf *)
(*   and <<0, 0>> is NaN (u32 / 0 in f32)                                  *)
(* Products are rounded down to the unit where f32 would round to nearest. *)
(***************************************************************************)
EXTENDS Integers, Sequences, FiniteSets, TLC

VARIABLES
    input,      \* InputState (input.rs 7-18), shared by the callbacks and the loop
    camera,     \* Camera (camera.rs 3-8)
    rotation,   \* rotation_x / rotation_y of the rotating camera variant
    app,        \* AppState.paused, AppState.last_time (lib.rs 30-37)
    sim,        \* Simulation.params and its mirrored buffers (simulation.rs 26-36)
    gfx,        \* Graphics.config width / height (graphics.rs 83-91)
    raf,        \* animation-frame callbacks requested and not yet run
    frame,      \* what the most recent animation_frame did, in call order
    call,       \* the most recent direct Camera call (camera specification)
    hist,       \* history counters: ticks, presses, toggles, resets, ...
    startup     \* how far start() / run() got, and the error run() returned

vars == <<input, camera, rotation, app, sim, gfx, raf, frame, call, hist, startup>>

----------------------------------------------------------------------------
(* Bounds of the model                                                     *)

MaxTicks == 3
MaxKeys == 3
MaxCameraCalls == 4
\* the largest number of pointer, wheel and touch events in a behaviour
MaxEvents == 3
\* particle counts 0..MaxParticleCount are dispatched, besides the two sizes
\* the simulation is built with
MaxParticleCount == 130

\* first time stamps and gaps between consecutive time stamps, milliseconds;
\* 10 is below the timestep cap, 1000 is a stall; 0 is the earliest first stamp
FirstTimes == {0, 5}
TimeGaps == {10, 1000}
KeyCodes == {"Space", "KeyR", "KeyA"}
SurfaceOutcomes == {TRUE, FALSE}
\* mouse buttons: primary, auxiliary, secondary
Buttons == {0, 1, 2}
\* pointer positions: a move of 200 turns the camera by 2.0 rad, past the pole
\* clamp; <<0, 0>> to <<0, 0>> is a move inside the dead-zone
MousePoints == {<<0, 0>>, <<200, 200>>, <<3, 0>>}
\* lists of active touch contacts: none, one, two at distance 100, 50 and 0,
\* and three
TouchLists == {<<>>, <<<<0, 0>>>>, <<<<200, 200>>>>,
               <<<<0, 0>>, <<100, 0>>>>, <<<<0, 0>>, <<30, 40>>>>,
               <<<<0, 0>>, <<0, 0>>>>,
               <<<<0, 0>>, <<100, 0>>, <<200, 200>>>>}
\* wheel delta_y in tenths: 0.1 (inside the dead-zone), 100.0 and -50.0
WheelDeltas == {1, 1000, -500}
\* arguments of direct Camera calls: zoom deltas in tenths (-1000.0 gives a
\* factor of 0, -3000.0 a negative one, 20000.0 a factor of 21), pan and rotate
\* deltas, and surface sizes for resize
ZoomDeltas == {-30000, -10000, -5000, 10000, 200000}
PanArgs == {<<-2, 0>>, <<3, 3>>}
RotateArgs == {<<1, -200>>, <<-2, 200>>}
ResizeArgs == {<<4, 3>>, <<3, 3>>, <<3, 0>>, <<0, 3>>, <<0, 0>>}

----------------------------------------------------------------------------
(* Program constants                                                       *)

DEFAULT_DT == 16
MAX_DT == 33
INITIAL_DT == 16
GM == 40000
NUM_PARTICLES == 131072
WORKGROUP_SIZE == 64
NUM_CLOSE_STARS == 500
SCALE_DEFAULT == 1000
SCALE_MIN == 10
SCALE_MAX == 10000
ZOOM_DIV == 10000
POSITION_Z == 80000
ORTHO_WIDTH == 1000
ORTHO_NEAR == -1000
ORTHO_FAR == 1000
ROTATION_X_MAX == 150
ZOOM_DEAD_ZONE == 1
PINCH_SENSITIVITY == 50
CANVAS_WIDTH == 1024
CANVAS_HEIGHT == 768

----------------------------------------------------------------------------
(* Arithmetic helpers                                                      *)

Abs(x) == IF x < 0 THEN -x ELSE x

Min(a, b) == IF a < b THEN a ELSE b

\* f32::clamp(lo, hi)
Clamp(x, lo, hi) == IF x < lo THEN lo ELSE IF x > hi THEN hi ELSE x

RECURSIVE Gcd(_, _)
Gcd(a, b) == IF b = 0 THEN a ELSE Gcd(b, a % b)

\* width as f32 / height as f32, as a reduced fraction; x/0 is +inf, 0/0 is NaN
Ratio(w, h) ==
    IF h = 0 THEN (IF w = 0 THEN <<0, 0>> ELSE <<1, 0>>)
    ELSE <<w \div Gcd(w, h), h \div Gcd(w, h)>>

----------------------------------------------------------------------------
(* Camera (camera.rs)                                                      *)

CameraNew ==
    [position |-> [x |-> 0, y |-> 0, z |-> POSITION_Z],
     scale |-> SCALE_DEFAULT,
     aspect_ratio |-> <<1, 1>>,
     is_3d |-> FALSE]

RotationNew == [x |-> 0, y |-> 0]

SetAspectRatio(cam, aspect_ratio) == [cam EXCEPT !.aspect_ratio = aspect_ratio]

\* pan_scale = 1 / scale; position.x -= dx * pan_scale; position.y += dy * pan_scale
Pan(cam, delta_x, delta_y) ==
    [cam EXCEPT !.position.x = @ - ((delta_x * 100000) \div cam.scale),
                !.position.y = @ + ((delta_y * 100000) \div cam.scale)]

\* variant: zoom without the clamp
ZoomUnclamped(cam, delta) ==
    [cam EXCEPT !.scale = (cam.scale * (ZOOM_DIV + delta)) \div ZOOM_DIV]

\* scale *= 1 + delta * 0.001; scale = scale.clamp(0.01, 10.0)
Zoom(cam, delta) ==
    [cam EXCEPT !.scale =
        Clamp((cam.scale * (ZOOM_DIV + delta)) \div ZOOM_DIV, SCALE_MIN, SCALE_MAX)]

\* variant: reset that restores position only
ResetKeepsScale(cam) ==
    [cam EXCEPT !.position = [x |-> 0, y |-> 0, z |-> POSITION_Z]]

\* position and scale only: aspect_ratio and is_3d are not assigned
Reset(cam) ==
    [cam EXCEPT !.position = [x |-> 0, y |-> 0, z |-> POSITION_Z],
                !.scale = SCALE_DEFAULT]

\* variant: rotate without the pole clamp
RotateUnclamped(rot, dx, dy) == [x |-> rot.x + dy, y |-> rot.y + dx]

\* rotation_y += dx; rotation_x += dy; rotation_x clamped to [-1.5, 1.5]
Rotate(rot, dx, dy) ==
    [x |-> Clamp(rot.x + dy, -ROTATION_X_MAX, ROTATION_X_MAX), y |-> rot.y + dx]

----------------------------------------------------------------------------
(* InputState and the event callbacks (input.rs)                           *)

InputStateNew ==
    [mouse_pos |-> <<0, 0>>,
     last_mouse_pos |-> <<0, 0>>,
     is_dragging |-> FALSE,
     is_rotating |-> FALSE,
     zoom_delta |-> 0,
     pause_pressed |-> FALSE,
     reset_pressed |-> FALSE,
     touch_count |-> 0,
     last_pinch_distance |-> 0]

\* variant: a key-down that flips its flag instead of setting it
OnKeyDownFlips(state, code) ==
    IF code = "Space" THEN [state EXCEPT !.pause_pressed = ~@]
    ELSE IF code = "KeyR" THEN [state EXCEPT !.reset_pressed = ~@]
    ELSE state

\* the keydown closure: "Space" sets pause_pressed, "KeyR" sets reset_pressed
OnKeyDown(state, code) ==
    IF code = "Space" THEN [state EXCEPT !.pause_pressed = TRUE]
    ELSE IF code = "KeyR" THEN [state EXCEPT !.reset_pressed = TRUE]
    ELSE state

\* variant: a wheel closure that adds to zoom_delta
OnWheelAccumulates(state, delta_y) == [state EXCEPT !.zoom_delta = @ - delta_y]

\* the wheel closure: zoom_delta = -delta_y
OnWheel(state, delta_y) == [state EXCEPT !.zoom_delta = -delta_y]

\* variant: a mousedown that leaves the last consumed position where it was
OnMouseDownKeepsLast(state, button, pos) ==
    LET s1 == IF button = 0 THEN [state EXCEPT !.is_rotating = TRUE]
              ELSE IF button = 2 THEN [state EXCEPT !.is_dragging = TRUE]
              ELSE state
    IN  [s1 EXCEPT !.mouse_pos = pos]

\* the mousedown closure: button 0 starts rotating, button 2 dragging; the
\* position is taken as both the current and the last consumed one
OnMouseDown(state, button, pos) ==
    LET s1 == IF button = 0 THEN [state EXCEPT !.is_rotating = TRUE]
              ELSE IF button = 2 THEN [state EXCEPT !.is_dragging = TRUE]
              ELSE state
    IN  [s1 EXCEPT !.last_mouse_pos = pos, !.mouse_pos = pos]

\* the mousemove closure: mouse_pos only
OnMouseMove(state, pos) == [state EXCEPT !.mouse_pos = pos]

\* variant: a mouseup that ends dragging only
OnMouseUpKeepsRotating(state) == [state EXCEPT !.is_dragging = FALSE]

\* the mouseup closure
OnMouseUp(state) == [state EXCEPT !.is_dragging = FALSE, !.is_rotating = FALSE]

\* f32::sqrt, rounded down to a whole number
Isqrt(n) == CHOOSE r \in 0..n : r * r <= n /\ (r + 1) * (r + 1) > n

\* get_pinch_distance: the distance of the first two touches, 0.0 with fewer
GetPinchDistance(touches) ==
    IF Len(touches) >= 2
    THEN LET dx == touches[2][1] - touches[1][1]
             dy == touches[2][2] - touches[1][2]
         IN  Isqrt(dx * dx + dy * dy)
    ELSE 0

\* the touchstart closure
OnTouchStart(state, touches) ==
    LET s1 == [state EXCEPT !.touch_count = Len(touches)]
        s2 == IF Len(touches) >= 1
              THEN [s1 EXCEPT !.last_mouse_pos = touches[1],
                              !.mouse_pos = touches[1],
                              !.is_rotating = (Len(touches) = 1)]
              ELSE s1
    IN  IF Len(touches) >= 2
        THEN [s2 EXCEPT !.last_pinch_distance = GetPinchDistance(touches)]
        ELSE s2

\* variant: the pinch delta taken with the opposite sign
OnTouchMoveInverted(state, touches) ==
    IF Len(touches) = 1 THEN [state EXCEPT !.mouse_pos = touches[1]]
    ELSE IF Len(touches) >= 2
    THEN [state EXCEPT
             !.zoom_delta = IF state.last_pinch_distance > 0
                            THEN (state.last_pinch_distance - GetPinchDistance(touches))
                                     * PINCH_SENSITIVITY
                            ELSE @,
             !.last_pinch_distance = GetPinchDistance(touches)]
    ELSE state

\* the touchmove closure: one touch moves the pointer, two or more pinch;
\* zoom_delta = (new_distance - last_pinch_distance) * 5.0
OnTouchMove(state, touches) ==
    IF Len(touches) = 1 THEN [state EXCEPT !.mouse_pos = touches[1]]
    ELSE IF Len(touches) >= 2
    THEN [state EXCEPT
             !.zoom_delta = IF state.last_pinch_distance > 0
                            THEN (GetPinchDistance(touches) - state.last_pinch_distance)
                                     * PINCH_SENSITIVITY
                            ELSE @,
             !.last_pinch_distance = GetPinchDistance(touches)]
    ELSE state

\* the touchend closure; touches are the contacts that remain
OnTouchEnd(state, touches) ==
    IF Len(touches) = 0
    THEN [state EXCEPT !.touch_count = 0, !.is_rotating = FALSE,
                       !.last_pinch_distance = 0]
    ELSE [state EXCEPT !.touch_count = Len(touches)]

\* variant: no dead-zone
OutsideDeadZoneAlways(state) == TRUE

\* delta_x.abs() > 0.1 || delta_y.abs() > 0.1, on whole-number positions
OutsideDeadZone(state) ==
    \/ Abs(state.mouse_pos[1] - state.last_mouse_pos[1]) > 0
    \/ Abs(state.mouse_pos[2] - state.last_mouse_pos[2]) > 0

\* InputHandler::update_camera works on c = [state, camera, rotation, calls]:
\* the input state, the camera, and the Camera calls made so far in this call.

\* variant: the rotate block without the advance of last_mouse_pos
RotateBlockKeepsLast(c) ==
    IF c.state.is_rotating /\ OutsideDeadZone(c.state)
    THEN LET dx == c.state.mouse_pos[1] - c.state.last_mouse_pos[1]
             dy == c.state.mouse_pos[2] - c.state.last_mouse_pos[2]
         IN  [c EXCEPT !.rotation = Rotate(@, dx, dy),
                       !.calls = Append(@, [op |-> "rotate", a |-> dx, b |-> dy])]
    ELSE c

\* if state.is_rotating { ... camera.rotate(dx * 0.01, dy * 0.01) ... }
RotateBlock(c) ==
    IF c.state.is_rotating /\ OutsideDeadZone(c.state)
    THEN LET dx == c.state.mouse_pos[1] - c.state.last_mouse_pos[1]
             dy == c.state.mouse_pos[2] - c.state.last_mouse_pos[2]
         IN  [c EXCEPT !.rotation = Rotate(@, dx, dy),
                       !.state.last_mouse_pos = c.state.mouse_pos,
                       !.calls = Append(@, [op |-> "rotate", a |-> dx, b |-> dy])]
    ELSE c

\* if state.is_dragging { ... camera.pan(dx, dy) ... }
PanBlock(c) ==
    IF c.state.is_dragging /\ OutsideDeadZone(c.state)
    THEN LET dx == c.state.mouse_pos[1] - c.state.last_mouse_pos[1]
             dy == c.state.mouse_pos[2] - c.state.last_mouse_pos[2]
         IN  [c EXCEPT !.camera = Pan(@, dx, dy),
                       !.state.last_mouse_pos = c.state.mouse_pos,
                       !.calls = Append(@, [op |-> "pan", a |-> dx, b |-> dy])]
    ELSE c

\* variant: the zoom applied, zoom_delta left in place
ZoomBlockKeepsDelta(c) ==
    IF Abs(c.state.zoom_delta) > ZOOM_DEAD_ZONE
    THEN [c EXCEPT !.camera = Zoom(@, c.state.zoom_delta),
                   !.calls = Append(@, [op |-> "zoom", a |-> c.state.zoom_delta, b |-> 0])]
    ELSE c

\* if state.zoom_delta.abs() > 0.1 { camera.zoom(zoom_delta); zoom_delta = 0.0 }
ZoomBlock(c) ==
    IF Abs(c.state.zoom_delta) > ZOOM_DEAD_ZONE
    THEN [c EXCEPT !.camera = Zoom(@, c.state.zoom_delta),
                   !.state.zoom_delta = 0,
                   !.calls = Append(@, [op |-> "zoom", a |-> c.state.zoom_delta, b |-> 0])]
    ELSE c

\* variant: reset without clearing reset_pressed
ResetBlockKeepsFlag(c) ==
    IF c.state.reset_pressed
    THEN [c EXCEPT !.camera = Reset(@),
                   !.calls = Append(@, [op |-> "reset", a |-> 0, b |-> 0])]
    ELSE c

\* if state.reset_pressed { camera.reset(); reset_pressed = false }
ResetBlock(c) ==
    IF c.state.reset_pressed
    THEN [c EXCEPT !.camera = Reset(@),
                   !.state.reset_pressed = FALSE,
                   !.calls = Append(@, [op |-> "reset", a |-> 0, b |-> 0])]
    ELSE c

\* variant: the reset applied before rotate, pan and zoom
UpdateCameraResetFirst(state, cam, rot) ==
    ZoomBlock(PanBlock(RotateBlock(ResetBlock(
        [state |-> state, camera |-> cam, rotation |-> rot, calls |-> <<>>]))))

\* InputHandler::update_camera: the four blocks in source order
UpdateCamera(state, cam, rot) ==
    ResetBlock(ZoomBlock(PanBlock(RotateBlock(
        [state |-> state, camera |-> cam, rotation |-> rot, calls |-> <<>>]))))

\* variant: pause_toggled that reads the flag and does not clear it
PauseToggledKeepsFlag(state) ==
    [state |-> state, result |-> state.pause_pressed]

\* InputHandler::pause_toggled: read the flag and clear it
PauseToggled(state) ==
    IF state.pause_pressed
    THEN [state |-> [state EXCEPT !.pause_pressed = FALSE], result |-> TRUE]
    ELSE [state |-> state, result |-> FALSE]

----------------------------------------------------------------------------
(* Simulation, host side (simulation.rs)                                   *)

\* generate_initial_particles: the number of particles each loop pushes, the
\* first over 0..num_close_stars, the second over num_close_stars..NUM_PARTICLES
GenerateInitialParticles ==
    [close_stars |-> NUM_CLOSE_STARS, stream |-> NUM_PARTICLES - NUM_CLOSE_STARS]

\* SimulationParams as built by Simulation::new, and the buffers made from it;
\* of the particle buffer, the number of particles it holds
SimulationNew ==
    [params |-> [dt |-> INITIAL_DT, gm |-> GM, particle_count |-> NUM_PARTICLES],
     params_buffer |-> [dt |-> INITIAL_DT, gm |-> GM, particle_count |-> NUM_PARTICLES],
     camera_buffer |-> "unwritten",
     particle_buffer |-> GenerateInitialParticles.close_stars
                             + GenerateInitialParticles.stream]

\* variant: update that stores dt without the cap
SimUpdateUnclamped(s, dt) ==
    [s EXCEPT !.params.dt = dt, !.params_buffer = [s.params EXCEPT !.dt = dt]]

\* variant: update that rebuilds the parameters around the new dt
SimUpdateRebuildsParams(s, dt) ==
    [s EXCEPT !.params = [dt |-> Min(dt, MAX_DT), gm |-> 0, particle_count |-> 0],
              !.params_buffer = [dt |-> Min(dt, MAX_DT), gm |-> 0, particle_count |-> 0]]

\* Simulation::update: params.dt = dt.min(0.033); write params to params_buffer
SimUpdate(s, dt) ==
    LET params == [s.params EXCEPT !.dt = Min(dt, MAX_DT)]
    IN  [s EXCEPT !.params = params, !.params_buffer = params]

\* variant: the division rounded down
DivFloor(a, b) == a \div b

\* u32::div_ceil: the quotient, plus one when there is a remainder
DivCeil(a, b) == IF a % b > 0 THEN (a \div b) + 1 ELSE a \div b

\* Simulation::compute_pass: what it records into the encoder
ComputePass == [pass |-> "compute", workgroups |-> DivCeil(NUM_PARTICLES, WORKGROUP_SIZE)]

\* Simulation::render_pass: draw(0..NUM_PARTICLES, 0..1)
RenderPass == [pass |-> "render", vertices |-> NUM_PARTICLES, instances |-> 1]

\* view_width = 1000.0 / scale, in 1/100 world unit
ViewWidth(cam) == (ORTHO_WIDTH * 100 * SCALE_DEFAULT) \div cam.scale

\* an f32 that may be infinite or NaN: kind is "finite", "inf", "-inf" or "nan"
Finite(v) == [kind |-> "finite", v |-> v]
NonFinite(kind) == [kind |-> kind, v |-> 0]

\* view_height = view_width / aspect_ratio: a division by +inf gives 0, by 0
\* gives +inf, by NaN gives NaN
ViewHeight(cam) ==
    IF cam.aspect_ratio = <<0, 0>> THEN NonFinite("nan")
    ELSE IF cam.aspect_ratio[2] = 0 THEN Finite(0)
    ELSE IF cam.aspect_ratio[1] = 0 THEN NonFinite("inf")
    ELSE Finite((ViewWidth(cam) * cam.aspect_ratio[2]) \div cam.aspect_ratio[1])

\* position.y - view_height / 2.0
Bottom(y, view_height) ==
    IF view_height.kind = "finite" THEN Finite(y - (view_height.v \div 2))
    ELSE IF view_height.kind = "inf" THEN NonFinite("-inf")
    ELSE view_height

\* position.y + view_height / 2.0
Top(y, view_height) ==
    IF view_height.kind = "finite" THEN Finite(y + (view_height.v \div 2))
    ELSE view_height

\* variant: the orthographic region taken as position +/- view_width
BuildViewProjectionMatrixFullWidth(cam) ==
    [mode |-> "ortho",
     left |-> cam.position.x - ViewWidth(cam),
     right |-> cam.position.x + ViewWidth(cam),
     bottom |-> Bottom(cam.position.y, ViewHeight(cam)),
     top |-> Top(cam.position.y, ViewHeight(cam)),
     near |-> ORTHO_NEAR * 100, far |-> ORTHO_FAR * 100]

\* Camera::build_view_projection_matrix, kept as the arguments the matrix is
\* built from (the matrix is a one-to-one function of them): the eye and the
\* aspect ratio of the perspective branch, the six planes of the orthographic
\* one
BuildViewProjectionMatrix(cam) ==
    IF cam.is_3d
    THEN [mode |-> "perspective", eye |-> cam.position, aspect |-> cam.aspect_ratio]
    ELSE [mode |-> "ortho",
          left |-> cam.position.x - (ViewWidth(cam) \div 2),
          right |-> cam.position.x + (ViewWidth(cam) \div 2),
          bottom |-> Bottom(cam.position.y, ViewHeight(cam)),
          top |-> Top(cam.position.y, ViewHeight(cam)),
          near |-> ORTHO_NEAR * 100, far |-> ORTHO_FAR * 100]

\* Simulation::update_camera: write the matrix to camera_buffer
SimUpdateCamera(s, cam) == [s EXCEPT !.camera_buffer = BuildViewProjectionMatrix(cam)]

----------------------------------------------------------------------------
(* AppState (lib.rs)                                                       *)

AppStateNew == [paused |-> FALSE, last_time |-> 0]

\* dt of AppState::update: the delta when last_time > 0.0, else 0.016
FrameDt(a, current_time) ==
    IF a.last_time > 0 THEN current_time - a.last_time ELSE DEFAULT_DT

\* variant: the toggle has no effect on paused
TogglePausedTwice(paused, toggled) == paused

\* if pause_toggled() { paused = !paused }
TogglePaused(paused, toggled) == IF toggled THEN ~paused ELSE paused

\* AppState::update works on u: the fields of AppState it touches, the dt it
\* computed and what it did.

\* lines 61-66: dt, then last_time = current_time
UpdateTime(a, inp, cam, rot, s, current_time) ==
    [app |-> [a EXCEPT !.last_time = current_time],
     input |-> inp, camera |-> cam, rotation |-> rot, sim |-> s,
     dt |-> FrameDt(a, current_time),
     calls |-> <<>>, toggled |-> FALSE, updated |-> FALSE, log |-> <<>>]

\* line 69: input_handler.update_camera(&mut camera)
UpdateInput(u) ==
    LET uc == UpdateCamera(u.input, u.camera, u.rotation)
    IN  [u EXCEPT !.input = uc.state, !.camera = uc.camera,
                  !.rotation = uc.rotation, !.calls = uc.calls]

\* lines 72-78: if input_handler.pause_toggled() { paused = !paused }
UpdatePause(u) ==
    LET pt == PauseToggled(u.input)
    IN  [u EXCEPT !.input = pt.state, !.toggled = pt.result,
                  !.app.paused = TogglePaused(@, pt.result)]

\* variant: the simulation is stepped whether paused or not
UpdateSimulationAlways(u) ==
    [u EXCEPT !.sim = SimUpdate(@, u.dt), !.updated = TRUE,
              !.log = <<"write_params">>]

\* lines 81-92: if !paused { simulation.update(queue, dt) }
UpdateSimulation(u) ==
    IF ~u.app.paused
    THEN [u EXCEPT !.sim = SimUpdate(@, u.dt), !.updated = TRUE,
                   !.log = <<"write_params">>]
    ELSE u

\* variant: update that never steps the simulation
AppUpdateSkipsSimulation(a, inp, cam, rot, s, current_time) ==
    UpdatePause(UpdateInput(UpdateTime(a, inp, cam, rot, s, current_time)))

\* AppState::update
AppUpdate(a, inp, cam, rot, s, current_time) ==
    UpdateSimulation(UpdatePause(UpdateInput(
        UpdateTime(a, inp, cam, rot, s, current_time))))

\* variant: the compute pass is recorded whether paused or not
RecordComputeAlways(paused) == TRUE

\* if !self.paused { compute_pass }
RecordCompute(paused) == ~paused

\* variant: a paused tick records and submits nothing
RenderSkippedWhilePaused(a, s, cam, surface_ok) ==
    IF ~surface_ok \/ a.paused
    THEN [ok |-> surface_ok, sim |-> s, log |-> <<"get_current_texture_failed">>,
          batch |-> <<>>]
    ELSE [ok |-> TRUE, sim |-> SimUpdateCamera(s, cam),
          log |-> <<"get_current_texture", "create_command_encoder", "compute_pass",
                    "begin_render_pass", "write_camera", "render_pass", "submit",
                    "present">>,
          batch |-> <<ComputePass, RenderPass>>]

\* variant: the render pass is recorded before the compute pass
RenderBeforeCompute(a, s, cam, surface_ok) ==
    IF ~surface_ok
    THEN [ok |-> FALSE, sim |-> s, log |-> <<"get_current_texture_failed">>,
          batch |-> <<>>]
    ELSE [ok |-> TRUE, sim |-> SimUpdateCamera(s, cam),
          log |-> <<"get_current_texture", "create_command_encoder",
                    "begin_render_pass", "write_camera", "render_pass">>
                  \o (IF ~a.paused THEN <<"compute_pass">> ELSE <<>>)
                  \o <<"submit", "present">>,
          batch |-> <<RenderPass>> \o (IF ~a.paused THEN <<ComputePass>> ELSE <<>>)]

\* AppState::render: Err when the surface texture cannot be acquired, else one
\* encoder with the compute pass (when not paused) and the render pass, one
\* submit and one present.  log is the order of the calls; batch is the content
\* of the encoder handed to queue.submit.
Render(a, s, cam, surface_ok) ==
    IF ~surface_ok
    THEN [ok |-> FALSE, sim |-> s, log |-> <<"get_current_texture_failed">>,
          batch |-> <<>>]
    ELSE LET enc1 == IF RecordCompute(a.paused) THEN <<ComputePass>> ELSE <<>>
             log1 == <<"get_current_texture", "create_command_encoder">>
                     \o (IF RecordCompute(a.paused) THEN <<"compute_pass">> ELSE <<>>)
         IN  [ok |-> TRUE,
              sim |-> SimUpdateCamera(s, cam),
              log |-> log1 \o <<"begin_render_pass", "write_camera", "render_pass",
                                "submit", "present">>,
              batch |-> Append(enc1, RenderPass)]

----------------------------------------------------------------------------
(* History                                                                 *)

\* counters over the run so far.  pause_bursts counts the pause key-downs that
\* found no press pending; toggle_reads the true returns of pause_toggled;
\* toggles the inversions of paused; queue the passes the GPU queue was handed,
\* in submission order, each with the tick that recorded it; ev the kind of
\* the last callback that ran, events and moves the pointer, wheel and touch
\* events and the mousemove events so far, button / delta_y / touches the
\* argument of the last mousedown / wheel / touch event, zoom_sets the events
\* that wrote zoom_delta and zooms the Camera::zoom calls made by ticks.
HistNew ==
    [ticks |-> 0, keys |-> 0, now |-> -1,
     pause_presses |-> 0, pause_bursts |-> 0, reset_presses |-> 0,
     toggle_reads |-> 0, toggles |-> 0, resets |-> 0,
     rendered |-> 0, submits |-> 0, queue |-> <<>>,
     ev |-> "none", events |-> 0, zoom_sets |-> 0, zooms |-> 0,
     moves |-> 0, button |-> -1, delta_y |-> 0, touches |-> <<>>,
     drag |-> [origin |-> <<0, 0>>, passed |-> <<0, 0>>]]

\* the number of occurrences of op in a call log
Count(log, op) == Cardinality({i \in 1..Len(log) : log[i] = op})

\* the place of the first op in a call log, 0 when there is none
Pos(log, op) ==
    IF \E i \in 1..Len(log) : log[i] = op
    THEN CHOOSE i \in 1..Len(log) : log[i] = op /\ \A j \in 1..(i - 1) : log[j] # op
    ELSE 0

\* the passes of a batch, each tagged with the tick that recorded it
Tagged(batch, tick) == [i \in 1..Len(batch) |-> [tick |-> tick, pass |-> batch[i].pass]]

\* the sum of the deltas that the rotate and pan calls from place i on, in a
\* tick's camera calls, passed to the camera
RECURSIVE PassedBy(_, _)
PassedBy(calls, i) ==
    IF i > Len(calls) THEN <<0, 0>>
    ELSE IF calls[i].op \in {"rotate", "pan"}
    THEN <<calls[i].a + PassedBy(calls, i + 1)[1], calls[i].b + PassedBy(calls, i + 1)[2]>>
    ELSE PassedBy(calls, i + 1)

FrameNone ==
    [tick |-> 0, time |-> -1, prev_time |-> -1, dt |-> 0,
     pause_pending |-> FALSE, reset_pending |-> FALSE, paused_before |-> FALSE,
     toggled |-> FALSE, updated |-> FALSE, calls |-> <<>>,
     surface_ok |-> FALSE, log |-> <<>>, batch |-> <<>>]

CallNone == [n |-> 0, op |-> "none", a |-> 0, b |-> 0, before |-> CameraNew]

IsCall(c, op) == \E i \in 1..Len(c) : c[i].op = op

----------------------------------------------------------------------------
(* The running program: event callbacks and the animation frame            *)

\* variant: the next frame is requested only after a frame that rendered
FramesAfterRenderedOnly(pending, render_ok) ==
    IF render_ok THEN (pending - 1) + 1 ELSE pending - 1

\* animation_frame: the callback that runs is no longer pending, and its last
\* statement requests the next one, whatever render returned
FramesAfter(pending, render_ok) == (pending - 1) + 1

\* before start(): nothing constructed, no listener installed, no frame requested
StartupNone == [pc |-> "start", result |-> "none", logged |-> "none",
                listeners |-> FALSE, outcomes |-> <<>>]

\* variant: the first frame is requested however the construction went
RunOutcomeAlwaysRequests(graphics, simulation, listeners) ==
    [startup |-> [pc |-> "failed", result |-> "graphics", logged |-> "graphics",
                  listeners |-> FALSE],
     raf |-> 1]

\* run(), as spawned by start(): Graphics::new, Simulation::new and
\* setup_event_listeners in this order, each ending run() with its error (?);
\* a missing adapter panics inside Graphics::new.  The error run() returns is
\* logged by the task start() spawned.  request_animation_frame() is the last
\* statement, reached only when nothing failed.  keydown is the last listener
\* installed, so it is installed exactly when setup_event_listeners returns Ok.
RunOutcome(graphics, simulation, listeners) ==
    IF graphics = "panic"
    THEN [startup |-> [pc |-> "panicked", result |-> "none", logged |-> "panic",
                       listeners |-> FALSE],
          raf |-> 0]
    ELSE IF graphics = "err"
    THEN [startup |-> [pc |-> "failed", result |-> "graphics", logged |-> "graphics",
                       listeners |-> FALSE],
          raf |-> 0]
    ELSE IF simulation = "err"
    THEN [startup |-> [pc |-> "failed", result |-> "simulation",
                       logged |-> "simulation", listeners |-> FALSE],
          raf |-> 0]
    ELSE IF listeners = "err"
    THEN [startup |-> [pc |-> "failed", result |-> "listeners",
                       logged |-> "listeners", listeners |-> FALSE],
          raf |-> 0]
    ELSE [startup |-> [pc |-> "running", result |-> "ok", logged |-> "none",
                       listeners |-> TRUE],
          raf |-> 1]

\* the state once run() has returned Ok: AppState::new, listeners installed,
\* the first animation frame requested
\* the startup record after run(), with the outcomes its three steps had
Started(graphics, simulation, listeners) ==
    RunOutcome(graphics, simulation, listeners).startup
        @@ [outcomes |-> <<graphics, simulation, listeners>>]

Init ==
    /\ input = InputStateNew
    /\ camera = CameraNew
    /\ rotation = RotationNew
    /\ app = AppStateNew
    /\ sim = SimulationNew
    /\ gfx = [width |-> CANVAS_WIDTH, height |-> CANVAS_HEIGHT]
    /\ raf = 1
    /\ frame = FrameNone
    /\ call = CallNone
    /\ hist = HistNew
    /\ startup = Started("ok", "ok", "ok")

\* a keydown event delivered to the document listener
KeyDown(code) ==
    /\ startup.listeners
    /\ hist.keys < MaxKeys
    /\ input' = OnKeyDown(input, code)
    /\ hist' = [hist EXCEPT
            !.keys = @ + 1,
            !.ev = "keydown",
            !.pause_presses = IF code = "Space" THEN @ + 1 ELSE @,
            !.pause_bursts = IF code = "Space" /\ ~input.pause_pressed THEN @ + 1 ELSE @,
            !.reset_presses = IF code = "KeyR" THEN @ + 1 ELSE @]
    /\ UNCHANGED <<camera, rotation, app, sim, gfx, raf, frame, call, startup>>

\* the history after one more pointer, wheel or touch event: its kind, its
\* argument (button, delta_y or touches), and whether it wrote zoom_delta
Event(kind, arg, sets_zoom) ==
    hist' = [hist EXCEPT !.ev = kind, !.events = @ + 1,
                         !.moves = IF kind = "mousemove" THEN @ + 1 ELSE @,
                         !.button = IF kind = "mousedown" THEN arg ELSE @,
                         !.delta_y = IF kind = "wheel" THEN arg ELSE @,
                         !.touches = IF kind \in {"touchstart", "touchmove", "touchend"}
                                     THEN arg ELSE @,
                         !.zoom_sets = IF sets_zoom THEN @ + 1 ELSE @,
                         !.drag = IF /\ kind \in {"mousedown", "touchstart"}
                                     /\ ~input.is_rotating
                                     /\ ~input.is_dragging
                                  THEN [origin |-> input'.mouse_pos,
                                        passed |-> <<0, 0>>]
                                  ELSE @]

\* a mousedown event on the canvas
MouseDown(button, pos) ==
    /\ startup.listeners
    /\ hist.events < MaxEvents
    /\ input' = OnMouseDown(input, button, pos)
    /\ Event("mousedown", button, FALSE)
    /\ UNCHANGED <<camera, rotation, app, sim, gfx, raf, frame, call, startup>>

\* a mousemove event on the canvas
MouseMove(pos) ==
    /\ startup.listeners
    /\ hist.events < MaxEvents
    /\ input' = OnMouseMove(input, pos)
    /\ Event("mousemove", pos, FALSE)
    /\ UNCHANGED <<camera, rotation, app, sim, gfx, raf, frame, call, startup>>

\* a mouseup event anywhere in the document
MouseUp ==
    /\ startup.listeners
    /\ hist.events < MaxEvents
    /\ input' = OnMouseUp(input)
    /\ Event("mouseup", 0, FALSE)
    /\ UNCHANGED <<camera, rotation, app, sim, gfx, raf, frame, call, startup>>

\* a wheel event on the canvas
Wheel(delta_y) ==
    /\ startup.listeners
    /\ hist.events < MaxEvents
    /\ input' = OnWheel(input, delta_y)
    /\ Event("wheel", delta_y, TRUE)
    /\ UNCHANGED <<camera, rotation, app, sim, gfx, raf, frame, call, startup>>

\* a touchstart event: touches lists every contact now active, so more than
\* before
TouchStart(touches) ==
    /\ startup.listeners
    /\ hist.events < MaxEvents
    /\ Len(touches) > input.touch_count
    /\ input' = OnTouchStart(input, touches)
    /\ Event("touchstart", touches, FALSE)
    /\ UNCHANGED <<camera, rotation, app, sim, gfx, raf, frame, call, startup>>

\* a touchmove event: the same contacts, moved
TouchMove(touches) ==
    /\ startup.listeners
    /\ hist.events < MaxEvents
    /\ Len(touches) >= 1
    /\ Len(touches) = input.touch_count
    /\ input' = OnTouchMove(input, touches)
    /\ Event("touchmove", touches,
             Len(touches) >= 2 /\ input.last_pinch_distance > 0)
    /\ UNCHANGED <<camera, rotation, app, sim, gfx, raf, frame, call, startup>>

\* a touchend event: touches lists the contacts that remain, fewer than before
TouchEnd(touches) ==
    /\ startup.listeners
    /\ hist.events < MaxEvents
    /\ Len(touches) < input.touch_count
    /\ input' = OnTouchEnd(input, touches)
    /\ Event("touchend", touches, FALSE)
    /\ UNCHANGED <<camera, rotation, app, sim, gfx, raf, frame, call, startup>>

\* animation_frame(time): app.update(time), app.render(), then the next frame is
\* requested.  The callback runs to completion: no event callback runs inside it.
AnimationFrame(time, surface_ok) ==
    /\ raf > 0
    /\ hist.ticks < MaxTicks
    /\ LET u == AppUpdate(app, input, camera, rotation, sim, time)
           r == Render(u.app, u.sim, u.camera, surface_ok)
       IN  /\ input' = u.input
           /\ camera' = u.camera
           /\ rotation' = u.rotation
           /\ app' = u.app
           /\ sim' = r.sim
           /\ frame' = [tick |-> hist.ticks + 1, time |-> time, prev_time |-> hist.now,
                        dt |-> u.dt,
                        pause_pending |-> input.pause_pressed,
                        reset_pending |-> input.reset_pressed,
                        paused_before |-> app.paused,
                        toggled |-> u.toggled, updated |-> u.updated,
                        calls |-> u.calls, surface_ok |-> surface_ok,
                        log |-> u.log \o r.log, batch |-> r.batch]
           /\ hist' = [hist EXCEPT
                   !.ticks = @ + 1,
                   !.ev = "tick",
                   !.drag.passed = <<@[1] + PassedBy(u.calls, 1)[1],
                                     @[2] + PassedBy(u.calls, 1)[2]>>,
                   !.zooms = @ + Cardinality({i \in 1..Len(u.calls) :
                                                 u.calls[i].op = "zoom"}),
                   !.now = time,
                   !.toggle_reads = IF u.toggled THEN @ + 1 ELSE @,
                   !.toggles = IF u.app.paused # app.paused THEN @ + 1 ELSE @,
                   !.resets = @ + Cardinality({i \in 1..Len(u.calls) :
                                                  u.calls[i].op = "reset"}),
                   !.rendered = IF Pos(r.log, "render_pass") > 0 THEN @ + 1 ELSE @,
                   !.submits = @ + Count(r.log, "submit"),
                   !.queue = IF Pos(r.log, "submit") > 0
                             THEN @ \o Tagged(r.batch, hist.ticks + 1) ELSE @]
    /\ raf' = FramesAfter(raf, Render(app, sim, camera, surface_ok).ok)
    /\ UNCHANGED <<gfx, call, startup>>

\* the time stamps requestAnimationFrame supplies: increasing, milliseconds
Tick ==
    \E surface_ok \in SurfaceOutcomes :
        \/ /\ hist.ticks = 0
           /\ \E t \in FirstTimes : AnimationFrame(t, surface_ok)
        \/ /\ hist.ticks > 0
           /\ \E g \in TimeGaps : AnimationFrame(hist.now + g, surface_ok)

Key == \E code \in KeyCodes : KeyDown(code)

Next == Tick \/ Key

Spec == Init /\ [][Next]_vars

----------------------------------------------------------------------------
(* Pointer, wheel and touch input between the frames                       *)

\* a frame 10 ms after the previous one, the surface acquired
InputTick == AnimationFrame(IF hist.ticks = 0 THEN 5 ELSE hist.now + 10, TRUE)

Mouse ==
    \/ \E button \in Buttons, pos \in MousePoints : MouseDown(button, pos)
    \/ \E pos \in MousePoints : MouseMove(pos)
    \/ MouseUp

Touch ==
    \/ \E touches \in TouchLists : TouchStart(touches)
    \/ \E touches \in TouchLists : TouchMove(touches)
    \/ \E touches \in TouchLists : TouchEnd(touches)

NextInput ==
    \/ Mouse
    \/ \E delta_y \in WheelDeltas : Wheel(delta_y)
    \/ Touch
    \/ InputTick

SpecInput == Init /\ [][NextInput]_vars

NextTouch == Touch \/ InputTick

SpecTouch == Init /\ [][NextTouch]_vars

\* keys, mouse and wheel together: at most MaxEvents of them in a behaviour, and
\* frames 10 ms apart that may fail to acquire the surface.  The buttons are
\* those that select a mode, the keys those that have an effect, the wheel
\* deltas one inside and one outside the dead-zone.
InputsLeft == hist.events + hist.keys < MaxEvents

ControlButtons == {0, 2}
ControlPoints == {<<0, 0>>, <<3, 0>>}
ControlKeys == {"Space", "KeyR"}
ControlWheelDeltas == {1, 1000}

ControlsMouse ==
    \/ \E button \in ControlButtons, pos \in ControlPoints : MouseDown(button, pos)
    \/ \E pos \in ControlPoints : MouseMove(pos)
    \/ MouseUp

ControlsTick ==
    \E surface_ok \in SurfaceOutcomes :
        AnimationFrame(IF hist.ticks = 0 THEN 5 ELSE hist.now + 10, surface_ok)

NextControls ==
    \/ InputsLeft /\ ControlsMouse
    \/ InputsLeft /\ \E delta_y \in ControlWheelDeltas : Wheel(delta_y)
    \/ InputsLeft /\ \E code \in ControlKeys : KeyDown(code)
    \/ ControlsTick

SpecControls == Init /\ [][NextControls]_vars

----------------------------------------------------------------------------
(* Startup: start() spawns run()                                           *)

GraphicsOutcomes == {"ok", "err", "panic"}
Outcomes == {"ok", "err"}

InitStartup ==
    /\ input = InputStateNew
    /\ camera = CameraNew
    /\ rotation = RotationNew
    /\ app = AppStateNew
    /\ sim = SimulationNew
    /\ gfx = [width |-> CANVAS_WIDTH, height |-> CANVAS_HEIGHT]
    /\ raf = 0
    /\ frame = FrameNone
    /\ call = CallNone
    /\ hist = HistNew
    /\ startup = StartupNone

\* run() from its first statement to its return
Run(graphics, simulation, listeners) ==
    /\ startup.pc = "start"
    /\ startup' = Started(graphics, simulation, listeners)
    /\ raf' = RunOutcome(graphics, simulation, listeners).raf
    /\ UNCHANGED <<input, camera, rotation, app, sim, gfx, frame, call, hist>>

Start ==
    \E graphics \in GraphicsOutcomes, simulation \in Outcomes, listeners \in Outcomes :
        Run(graphics, simulation, listeners)

NextStartup == Start \/ Tick \/ Key

SpecStartup == InitStartup /\ [][NextStartup]_vars

----------------------------------------------------------------------------
(* The dispatch size of compute_pass, for any particle count               *)

\* the particle counts dispatched: small ones, and the sizes 16384 and 131072
ParticleCounts == (0..MaxParticleCount) \cup {16384, NUM_PARTICLES}

InitDispatch ==
    /\ \E particle_count \in ParticleCounts :
           call = [n |-> 0, op |-> "particles", a |-> particle_count, b |-> 0,
                   before |-> CameraNew]
    /\ input = InputStateNew
    /\ camera = CameraNew
    /\ rotation = RotationNew
    /\ app = AppStateNew
    /\ sim = SimulationNew
    /\ gfx = [width |-> CANVAS_WIDTH, height |-> CANVAS_HEIGHT]
    /\ raf = 1
    /\ frame = FrameNone
    /\ hist = HistNew
    /\ startup = Started("ok", "ok", "ok")

\* workgroups = particle_count.div_ceil(WORKGROUP_SIZE); dispatch_workgroups(workgroups, 1, 1)
Dispatch ==
    /\ call.op = "particles"
    /\ call' = [call EXCEPT !.n = 1, !.op = "dispatch",
                            !.b = DivCeil(call.a, WORKGROUP_SIZE)]
    /\ UNCHANGED <<input, camera, rotation, app, sim, gfx, raf, frame, hist, startup>>

SpecDispatch == InitDispatch /\ [][Dispatch]_vars

----------------------------------------------------------------------------
(* The Camera and resize operations called directly                        *)

\* Graphics::resize: the surface is reconfigured only for non-zero sizes
GraphicsResize(g, new_width, new_height) ==
    IF new_width > 0 /\ new_height > 0
    THEN [width |-> new_width, height |-> new_height]
    ELSE g

Called(op, a, b) ==
    call' = [n |-> call.n + 1, op |-> op, a |-> a, b |-> b, before |-> camera]

CameraZoom(delta) ==
    /\ call.n < MaxCameraCalls
    /\ camera' = Zoom(camera, delta)
    /\ Called("zoom", delta, 0)
    /\ UNCHANGED <<input, rotation, app, sim, gfx, raf, frame, hist, startup>>

CameraPan(delta_x, delta_y) ==
    /\ call.n < MaxCameraCalls
    /\ camera' = Pan(camera, delta_x, delta_y)
    /\ Called("pan", delta_x, delta_y)
    /\ UNCHANGED <<input, rotation, app, sim, gfx, raf, frame, hist, startup>>

CameraRotate(dx, dy) ==
    /\ call.n < MaxCameraCalls
    /\ rotation' = Rotate(rotation, dx, dy)
    /\ Called("rotate", dx, dy)
    /\ UNCHANGED <<input, camera, app, sim, gfx, raf, frame, hist, startup>>

CameraReset ==
    /\ call.n < MaxCameraCalls
    /\ camera' = Reset(camera)
    /\ Called("reset", 0, 0)
    /\ UNCHANGED <<input, rotation, app, sim, gfx, raf, frame, hist, startup>>

\* AppState::resize: graphics.resize, then camera.set_aspect_ratio(width / height)
AppResize(width, height) ==
    /\ call.n < MaxCameraCalls
    /\ gfx' = GraphicsResize(gfx, width, height)
    /\ camera' = SetAspectRatio(camera, Ratio(width, height))
    /\ Called("resize", width, height)
    /\ UNCHANGED <<input, rotation, app, sim, raf, frame, hist, startup>>

NextCamera ==
    \/ \E delta \in ZoomDeltas : CameraZoom(delta)
    \/ \E d \in PanArgs : CameraPan(d[1], d[2])
    \/ \E d \in RotateArgs : CameraRotate(d[1], d[2])
    \/ CameraReset
    \/ \E d \in ResizeArgs : AppResize(d[1], d[2])

SpecCamera == Init /\ [][NextCamera]_vars

\* build_view_projection_matrix over both projection modes.  is_3d is a public
\* field of Camera that nothing in the sources assigns after Camera::new; here
\* the mode is an input, fixed at the start.
InitProjection ==
    /\ \E is_3d \in BOOLEAN : camera = [CameraNew EXCEPT !.is_3d = is_3d]
    /\ input = InputStateNew
    /\ rotation = RotationNew
    /\ app = AppStateNew
    /\ sim = SimulationNew
    /\ gfx = [width |-> CANVAS_WIDTH, height |-> CANVAS_HEIGHT]
    /\ raf = 1
    /\ frame = FrameNone
    /\ call = CallNone
    /\ hist = HistNew
    /\ startup = Started("ok", "ok", "ok")

\* simulation.update_camera(queue, &camera), as render calls it
WriteCamera ==
    /\ call.n < MaxCameraCalls
    /\ sim' = SimUpdateCamera(sim, camera)
    /\ Called("write_camera", 0, 0)
    /\ UNCHANGED <<input, camera, rotation, app, gfx, raf, frame, hist, startup>>

NextProjection == NextCamera \/ WriteCamera

SpecProjection == InitProjection /\ [][NextProjection]_vars

----------------------------------------------------------------------------
(* Properties of the frame loop (Spec)                                     *)

Has(log, op) == Pos(log, op) > 0

HasPass(batch, pass) == \E i \in 1..Len(batch) : batch[i].pass = pass

\* C1: in every tick, SimulationEngine.update is called (the timestep is
\* written) and a compute pass is recorded only if paused is false after the
\* tick's pause-flag processing; in a tick that ends paused neither the
\* timestep write nor the compute dispatch happens.
C1_ComputeOnlyWhenRunning ==
    frame.tick > 0 =>
        /\ (frame.updated \/ Has(frame.log, "write_params")) => ~app.paused
        /\ (Has(frame.log, "compute_pass") \/ HasPass(frame.batch, "compute"))
               => ~app.paused
        /\ app.paused =>
               /\ ~frame.updated
               /\ ~Has(frame.log, "write_params")
               /\ ~Has(frame.log, "compute_pass")
               /\ ~HasPass(frame.batch, "compute")

\* a tick that ended paused and still rendered, and no compute pass in its batch
C1_Witness ==
    /\ frame.tick > 0
    /\ app.paused
    /\ frame.surface_ok
    /\ frame.batch = <<RenderPass>>

\* C2 as claimed: in every tick, paused or not, the render pass is recorded and
\* the frame is submitted.
C2_RenderEveryTick ==
    frame.tick > 0 => (Has(frame.log, "render_pass") /\ Has(frame.log, "submit"))

\* C2 as amended: in every tick in which the drawable surface is acquired,
\* paused or not, the render pass is recorded and the frame is submitted and
\* presented; a tick whose surface acquisition fails records and submits
\* nothing.
C2_RenderEveryAcquiredTick ==
    frame.tick > 0 =>
        /\ frame.surface_ok =>
               /\ Has(frame.log, "render_pass")
               /\ HasPass(frame.batch, "render")
               /\ Has(frame.log, "submit")
               /\ Has(frame.log, "present")
        /\ ~frame.surface_ok =>
               /\ ~Has(frame.log, "render_pass")
               /\ ~Has(frame.log, "submit")
               /\ frame.batch = <<>>

\* a paused tick that recorded the render pass and submitted
C2_Witness ==
    /\ frame.tick > 0
    /\ app.paused
    /\ frame.paused_before
    /\ Has(frame.log, "render_pass")
    /\ Has(frame.log, "submit")

\* the tick tags of the passes handed to the queue never decrease, and within
\* one tick a compute pass comes before the render pass
QueueOrdered(q) ==
    \A i \in 1..Len(q) : \A j \in 1..Len(q) :
        i < j => /\ q[i].tick <= q[j].tick
                 /\ (q[i].tick = q[j].tick => (q[i].pass = "compute" /\ q[j].pass = "render"))

\* C3: within a tick the compute dispatch (when present) precedes the render
\* pass in the one submitted batch, the camera-uniform write is queued before
\* render_pass is recorded and before the submit, exactly one batch is submitted
\* per rendered tick, and across ticks the queue sees the passes in tick order.
C3_ComputeBeforeRenderOneSubmit ==
    /\ (frame.tick > 0 /\ Has(frame.log, "render_pass")) =>
           /\ Has(frame.log, "compute_pass") =>
                  Pos(frame.log, "compute_pass") < Pos(frame.log, "render_pass")
           /\ HasPass(frame.batch, "compute") =>
                  (frame.batch = <<ComputePass, RenderPass>>)
           /\ Has(frame.log, "write_camera")
           /\ Pos(frame.log, "write_camera") < Pos(frame.log, "render_pass")
           /\ Pos(frame.log, "write_camera") < Pos(frame.log, "submit")
           /\ Pos(frame.log, "render_pass") < Pos(frame.log, "submit")
           /\ Count(frame.log, "submit") = 1
    /\ hist.submits = hist.rendered
    /\ QueueOrdered(hist.queue)

\* an unpaused tick that submitted a compute pass and a render pass, after an
\* earlier tick that submitted too
C3_Witness ==
    /\ frame.tick > 1
    /\ frame.batch = <<ComputePass, RenderPass>>
    /\ hist.submits > 1

\* C4: the edge-triggered flags are consumed at most once per press:
\* pause_toggled returns true only with a pause key-down since its last true
\* return, and clears the flag; update_camera resets only with a reset key-down
\* since the last reset; toggles <= pause presses and resets <= reset presses.
C4_FlagsConsumedOncePerPress ==
    /\ hist.toggle_reads + (IF input.pause_pressed THEN 1 ELSE 0) <= hist.pause_presses
    /\ hist.toggles <= hist.pause_presses
    /\ hist.resets + (IF input.reset_pressed THEN 1 ELSE 0) <= hist.reset_presses
    /\ frame.toggled => frame.pause_pending
    /\ IsCall(frame.calls, "reset") => frame.reset_pending

\* two ticks consumed a pause press and a reset press, once each
C4_Witness ==
    /\ hist.toggle_reads = 1
    /\ hist.resets = 1
    /\ hist.pause_presses = 1
    /\ hist.reset_presses = 1
    /\ hist.ticks >= 2

\* C5: in each tick paused is inverted if and only if the pause flag was pending
\* when the tick began, and the tick leaves the flag clear.
C5_TickInvertsIffPending ==
    [][hist'.ticks = hist.ticks + 1 =>
          /\ (app'.paused # app.paused) <=> input.pause_pressed
          /\ ~input'.pause_pressed]_vars

\* a tick that began with the flag pending and inverted paused
C5_Witness ==
    /\ frame.tick > 0
    /\ frame.pause_pending
    /\ app.paused # frame.paused_before
    /\ ~input.pause_pressed

\* C6 as claimed: once a tick has run after the last press, the number of
\* inversions of paused equals the number of pause key-downs.
C6_OneInversionPerPress ==
    (frame.tick > 0 /\ ~input.pause_pressed) => hist.toggles = hist.pause_presses

\* C6 as amended: the number of inversions equals the number of pause key-downs
\* that found no earlier press pending (key-downs that arrive while a press is
\* pending are absorbed into it), so it is at most the number of key-downs.
C6_OneInversionPerPendingPress ==
    /\ hist.toggles + (IF input.pause_pressed THEN 1 ELSE 0) = hist.pause_bursts
    /\ hist.pause_bursts <= hist.pause_presses

\* two pause key-downs before one tick: one inversion
C6_Witness ==
    /\ frame.tick > 0
    /\ ~input.pause_pressed
    /\ hist.pause_presses = 2
    /\ hist.toggles = 1

\* C7: the stored timestep is at most 1/30 s after any updates: update stores
\* min(dt, 0.033), and the mirrored parameters buffer holds the same value.
C7_TimestepClamped ==
    /\ 30 * sim.params.dt <= 1000
    /\ sim.params_buffer.dt = sim.params.dt
    /\ frame.updated => sim.params.dt = Min(frame.dt, MAX_DT)

\* an update with dt = 1.0 s that stored 0.033 s
C7_Witness ==
    /\ frame.updated
    /\ frame.dt = 1000
    /\ sim.params.dt = MAX_DT
    /\ sim.params_buffer.dt = MAX_DT

\* C8: the first tick uses the default dt and every later tick uses the
\* difference of its time stamp and the previous tick's; the default is used on
\* the first tick only.
C8_DefaultDtOnFirstTickOnly ==
    frame.tick > 0 =>
        frame.dt = IF frame.tick = 1 THEN DEFAULT_DT ELSE frame.time - frame.prev_time

----------------------------------------------------------------------------
(* Properties of the Camera (SpecCamera)                                   *)

\* C9: after any sequence of zoom calls with arbitrary deltas, interleaved with
\* pan, reset and set_aspect_ratio, scale stays within [0.01, 10]; zoom(-1000)
\* on a freshly constructed camera leaves scale exactly at 0.01.
C9_ScaleWithinBounds ==
    /\ SCALE_MIN <= camera.scale
    /\ camera.scale <= SCALE_MAX
    /\ (call.op = "zoom" /\ call.a = -10000 /\ call.before = CameraNew)
           => camera.scale = SCALE_MIN

\* zoom(-1000) as the first call on a fresh camera
C9_Witness ==
    /\ call.n = 1
    /\ call.op = "zoom"
    /\ call.a = -10000
    /\ call.before = CameraNew
    /\ camera.scale = SCALE_MIN

\* C10 as claimed: after reset() every field of the camera, aspect_ratio and
\* mode included, equals its construction-time value.
C10_ResetYieldsFreshCamera ==
    call.op = "reset" => camera = CameraNew

\* C10 as amended: after reset() position and scale equal their
\* construction-time values, and aspect_ratio and is_3d are what they were
\* before the call; the state equals a fresh camera's exactly when aspect_ratio
\* was 1.0 before the call.
C10_ResetRestoresPositionAndScale ==
    call.op = "reset" =>
        /\ camera.position = CameraNew.position
        /\ camera.scale = CameraNew.scale
        /\ camera.aspect_ratio = call.before.aspect_ratio
        /\ camera.is_3d = call.before.is_3d
        /\ (camera = CameraNew) <=> (call.before.aspect_ratio = CameraNew.aspect_ratio)

\* a reset of a camera that had been resized, zoomed and panned
C10_Witness ==
    /\ call.op = "reset"
    /\ call.before.aspect_ratio # CameraNew.aspect_ratio
    /\ call.before.scale # CameraNew.scale
    /\ call.before.position # CameraNew.position
    /\ camera.scale = SCALE_DEFAULT

----------------------------------------------------------------------------
(* Properties of pointer, wheel and touch input (SpecInput, SpecTouch),    *)
(* of the dispatch size (SpecDispatch) and of startup (SpecStartup)        *)

\* a tick has just run
Ticked == hist'.ticks = hist.ticks + 1

\* the calls of kind op that the tick just run made on the camera
CallsOf(op) == {i \in 1..Len(frame'.calls) : frame'.calls[i].op = op}

\* C11: rotate(dx, dy) adds dx to rotation_y and dy to rotation_x and then
\* clamps rotation_x: a tick in which update_camera calls rotate leaves
\* rotation_y = old rotation_y + dx and rotation_x = old rotation_x + dy clamped
\* into [-1.5, 1.5], every other step leaves both alone, and after any sequence
\* of events and ticks rotation_x is within [-1.5, 1.5].
C11_RotateAddsAndClampsPitch ==
    /\ [](rotation.x >= -ROTATION_X_MAX /\ rotation.x <= ROTATION_X_MAX)
    /\ [][ /\ (~Ticked \/ CallsOf("rotate") = {}) => rotation' = rotation
           /\ Ticked =>
                  \A i \in CallsOf("rotate") :
                      /\ rotation'.y = rotation.y + frame'.calls[i].a
                      /\ rotation'.x = Clamp(rotation.x + frame'.calls[i].b,
                                             -ROTATION_X_MAX, ROTATION_X_MAX)
         ]_vars

\* a drag of 2.0 rad on both axes: the pitch stops at the pole clamp, the yaw
\* goes beyond 1.5
C11_Witness ==
    /\ \E i \in 1..Len(frame.calls) :
           frame.calls[i] = [op |-> "rotate", a |-> 200, b |-> 200]
    /\ rotation.x = ROTATION_X_MAX
    /\ rotation.y = 200

\* C12: compute_pass dispatches ceil(particle_count / 64) workgroups:
\* workgroups * 64 >= particle_count and (workgroups - 1) * 64 < particle_count,
\* 2048 for 131072 particles and 256 for 16384; the pass the simulation records
\* has 2048 workgroups.
C12_DispatchCoversParticles ==
    /\ ComputePass.workgroups = 2048
    /\ call.op = "dispatch" =>
           /\ call.b * WORKGROUP_SIZE >= call.a
           /\ (call.b - 1) * WORKGROUP_SIZE < call.a
           /\ call.a = 131072 => call.b = 2048
           /\ call.a = 16384 => call.b = 256

\* a count that is not a multiple of 64 gets one more workgroup
C12_Witness ==
    /\ call.op = "dispatch"
    /\ call.a = 65
    /\ call.b = 2

\* C13: after resize(width, height) the surface is configured with (width,
\* height) and Camera.aspect_ratio is the ratio of the configured surface
\* dimensions, for all width and height, zero included.
C13_ResizeConfiguresSurfaceAndAspect ==
    call.op = "resize" =>
        /\ gfx = [width |-> call.a, height |-> call.b]
        /\ camera.aspect_ratio = Ratio(gfx.width, gfx.height)

\* every construction step of run() succeeded
AllSucceeded == startup.outcomes = <<"ok", "ok", "ok">>

\* C14: a frame is requested or run only after Graphics, Simulation and the
\* event listeners were all set up; when one of them fails run() ends with that
\* error, which is logged, no frame is ever requested and no tick runs.
C14_NoFrameLoopAfterFailedInit ==
    /\ (raf > 0 \/ hist.ticks > 0) => AllSucceeded
    /\ (startup.pc # "start" /\ ~AllSucceeded) =>
           /\ raf = 0
           /\ hist.ticks = 0
           /\ startup.pc \in {"failed", "panicked"}
           /\ startup.pc = "failed" =>
                  /\ startup.result \in {"graphics", "simulation", "listeners"}
                  /\ startup.logged = startup.result

\* the listener setup fails after Graphics and Simulation were built
C14_Witness ==
    /\ startup.outcomes = <<"ok", "ok", "err">>
    /\ startup.pc = "failed"
    /\ startup.result = "listeners"
    /\ raf = 0

\* C15: a tick whose surface acquisition fails records no compute or render
\* pass and submits and presents nothing, and after every tick, rendered,
\* failed or paused, exactly one next frame is requested.
C15_FailedFrameSkippedLoopContinues ==
    /\ raf = 1
    /\ (frame.tick > 0 /\ ~frame.surface_ok) =>
           /\ Has(frame.log, "get_current_texture_failed")
           /\ \A op \in {"create_command_encoder", "compute_pass", "begin_render_pass",
                          "render_pass", "submit", "present"} : ~Has(frame.log, op)
           /\ frame.batch = <<>>
           /\ \A i \in 1..Len(hist.queue) : hist.queue[i].tick # frame.tick

\* the second tick fails to acquire the surface while running, after a first
\* one that rendered; the next frame is requested
C15_Witness ==
    /\ frame.tick = 2
    /\ ~frame.surface_ok
    /\ ~app.paused
    /\ hist.rendered = 1
    /\ raf = 1

\* the step just taken is the delivery of an event of this kind
Delivered(kind) == hist'.events = hist.events + 1 /\ hist'.ev = kind

Sign(x) == IF x > 0 THEN 1 ELSE IF x < 0 THEN -1 ELSE 0

\* C16: with a positive pinch baseline, a touch-move with two or more contacts
\* sets zoom_delta with the sign of (new distance - baseline) and advances the
\* baseline to the new distance, so a pinch that shrinks the distance gives a
\* negative zoom_delta; a zoom call with a negative delta does not increase the
\* scale and one with a positive delta does not decrease it.
C16_PinchSignFollowsDistance ==
    [][ /\ (/\ Delivered("touchmove")
            /\ Len(hist'.touches) >= 2
            /\ input.last_pinch_distance > 0) =>
               /\ Sign(input'.zoom_delta) =
                      Sign(GetPinchDistance(hist'.touches) - input.last_pinch_distance)
               /\ input'.last_pinch_distance = GetPinchDistance(hist'.touches)
        /\ Ticked =>
               \A i \in CallsOf("zoom") :
                   /\ frame'.calls[i].a < 0 => camera'.scale <= camera.scale
                   /\ frame'.calls[i].a > 0 => camera'.scale >= camera.scale
      ]_vars

\* touch-start with two contacts 100 apart, then a touch-move bringing them to
\* 50 apart: zoom_delta is -250
C16_Witness ==
    /\ hist.ev = "touchmove"
    /\ hist.events = 2
    /\ hist.ticks = 0
    /\ hist.touches = <<<<0, 0>>, <<30, 40>>>>
    /\ input.last_pinch_distance = 50
    /\ input.zoom_delta = -2500

\* C17 as stated: after every update_camera call zoom_delta is 0.
C17_ZoomDeltaZeroAfterEveryUpdate == hist.ev = "tick" => input.zoom_delta = 0

\* C17: a wheel event sets zoom_delta to the negated scroll delta; a tick whose
\* zoom_delta is outside the dead-zone (magnitude above 0.1) applies it to
\* Camera.zoom exactly once and zeroes it, a tick whose zoom_delta is inside
\* the dead-zone makes no zoom call and leaves it in place; so after every
\* tick zoom_delta is inside the dead-zone, and no more zoom calls are made
\* than values were written.
C17_ZoomDeltaOneShot ==
    /\ [](/\ hist.ev = "tick" => Abs(input.zoom_delta) <= ZOOM_DEAD_ZONE
          /\ hist.zooms <= hist.zoom_sets)
    /\ [][ /\ Delivered("wheel") => input'.zoom_delta = -(hist'.delta_y)
           /\ (Ticked /\ Abs(input.zoom_delta) > ZOOM_DEAD_ZONE) =>
                  /\ Cardinality(CallsOf("zoom")) = 1
                  /\ \A i \in CallsOf("zoom") : frame'.calls[i].a = input.zoom_delta
                  /\ input'.zoom_delta = 0
           /\ (Ticked /\ Abs(input.zoom_delta) <= ZOOM_DEAD_ZONE) =>
                  /\ CallsOf("zoom") = {}
                  /\ input'.zoom_delta = input.zoom_delta
         ]_vars

\* a wheel value applied in the first tick, then a wheel value of 0.1 that the
\* second tick neither applies nor zeroes
C17_Witness ==
    /\ hist.ev = "tick"
    /\ hist.ticks = 2
    /\ hist.zooms = 1
    /\ hist.zoom_sets = 2
    /\ input.zoom_delta = -1

\* the pointer delta a tick finds: latest position - last consumed position
PointerDelta == <<input.mouse_pos[1] - input.last_mouse_pos[1],
                  input.mouse_pos[2] - input.last_mouse_pos[2]>>

\* C18: a pointer-move event changes mouse_pos only, never the camera; a tick
\* makes at most one rotate/pan call, with the delta (latest position - last
\* consumed position), exactly when a mode is active and the delta is outside
\* the dead-zone.
C18_MovesCollapseIntoOneUpdate ==
    [][ /\ Delivered("mousemove") =>
               /\ camera' = camera
               /\ rotation' = rotation
               /\ input' = [input EXCEPT !.mouse_pos = input'.mouse_pos]
        /\ Ticked =>
               /\ Cardinality(CallsOf("rotate") \cup CallsOf("pan")) <= 1
               /\ \A i \in CallsOf("rotate") \cup CallsOf("pan") :
                      <<frame'.calls[i].a, frame'.calls[i].b>> = PointerDelta
               /\ (CallsOf("rotate") \cup CallsOf("pan") # {}) <=>
                      /\ input.is_rotating \/ input.is_dragging
                      /\ PointerDelta # <<0, 0>>
      ]_vars

\* pointer-down, two moves and then the first tick: one rotate call, with the
\* delta to the latest position
C18_Witness ==
    /\ hist.ev = "tick"
    /\ hist.ticks = 1
    /\ hist.events = 3
    /\ hist.moves = 2
    /\ frame.calls = <<[op |-> "rotate", a |-> 3, b |-> 0]>>
    /\ input.last_mouse_pos = <<3, 0>>

\* C19: pointer-down with button 0 activates rotate-mode, with button 2
\* pan-mode, with another button neither; pointer-up clears both modes; a mode
\* becomes active only in a pointer-down or touch-start.
C19_ButtonsSelectModePointerUpClears ==
    [][ /\ Delivered("mousedown") =>
               /\ input'.is_rotating = (input.is_rotating \/ hist'.button = 0)
               /\ input'.is_dragging = (input.is_dragging \/ hist'.button = 2)
        /\ Delivered("mouseup") => ~input'.is_rotating /\ ~input'.is_dragging
        /\ (\/ ~input.is_rotating /\ input'.is_rotating
            \/ ~input.is_dragging /\ input'.is_dragging) =>
               Delivered("mousedown") \/ Delivered("touchstart")
      ]_vars

\* primary and secondary button pressed, then a pointer-up that cleared both
C19_Witness ==
    /\ hist.ev = "mouseup"
    /\ hist.events = 3
    /\ hist.button = 2
    /\ hist.ticks = 0
    /\ input.mouse_pos = <<3, 0>>
    /\ ~input.is_rotating
    /\ ~input.is_dragging

\* C20 as stated: whenever exactly one touch contact is active, rotate-mode is
\* active.
C20_OneContactRotates == input.touch_count = 1 => input.is_rotating

----------------------------------------------------------------------------
(* Properties of keys, mouse and wheel together (SpecControls)             *)

\* C21: a tick that finds the reset flag pending calls Camera.reset() once, as
\* the last camera call of the tick, and clears the flag; at the end of that
\* tick position and scale are the construction defaults, whatever rotate, pan
\* or zoom input the same tick consumed.
C21_ResetWinsOverInputOfSameTick ==
    (hist.ev = "tick" /\ frame.reset_pending) =>
        /\ Len(frame.calls) >= 1
        /\ frame.calls[Len(frame.calls)].op = "reset"
        /\ Cardinality({i \in 1..Len(frame.calls) : frame.calls[i].op = "reset"}) = 1
        /\ ~input.reset_pressed
        /\ camera.position = CameraNew.position
        /\ camera.scale = CameraNew.scale

\* a drag with the secondary button and a reset key consumed by the same tick:
\* pan, then reset
C21_Witness ==
    /\ hist.ev = "tick"
    /\ frame.reset_pending
    /\ Len(frame.calls) = 2
    /\ frame.calls[1] = [op |-> "pan", a |-> 3, b |-> 0]
    /\ frame.calls[2].op = "reset"
    /\ camera.position = CameraNew.position

----------------------------------------------------------------------------
(* Further properties of the frame loop (Spec)                             *)

\* C23: in every reachable state gravitational_parameter is 40000 and
\* particle_count is the fixed particle count, in the parameters and in their
\* buffer; Simulation.update changes the timestep only; the particle buffer
\* holds particle_count particles, the compute pass dispatches
\* ceil(particle_count / 64) workgroups and the draw call has particle_count
\* vertices and one instance.
C23_OnlyTimestepChanges ==
    /\ sim.params.gm = GM
    /\ sim.params.particle_count = NUM_PARTICLES
    /\ sim.params_buffer.gm = 40000
    /\ sim.params_buffer.particle_count = 131072
    /\ [sim.params EXCEPT !.dt = INITIAL_DT] = SimulationNew.params
    /\ sim.particle_buffer = sim.params.particle_count
    /\ \A i \in 1..Len(frame.batch) :
           /\ frame.batch[i].pass = "compute" =>
                  frame.batch[i].workgroups
                      = DivCeil(sim.params.particle_count, WORKGROUP_SIZE)
           /\ frame.batch[i].pass = "render" =>
                  /\ frame.batch[i].vertices = sim.params.particle_count
                  /\ frame.batch[i].instances = 1

\* a tick that wrote a timestep other than the construction one and recorded
\* both passes
C23_Witness ==
    /\ frame.updated
    /\ sim.params.dt = 10
    /\ sim.params.gm = GM
    /\ HasPass(frame.batch, "compute")
    /\ HasPass(frame.batch, "render")

\* C26 as stated: last_time is updated on every tick, and on the first
\* unpaused tick after a pause the dt passed to Simulation.update is the
\* interval since the immediately preceding tick.
C26_DtAfterPauseIsLastInterval ==
    /\ frame.tick > 0 => app.last_time = frame.time
    /\ (frame.tick > 1 /\ frame.paused_before /\ frame.updated) =>
           frame.dt = frame.time - frame.prev_time

\* C27: a tick records a compute pass only if Simulation.update wrote the
\* timestep earlier in the same tick, so the parameters buffer the dispatch
\* reads holds min(dt, 0.033) for this tick's dt; a tick that does not write
\* the timestep records no compute pass.
C27_DispatchUsesThisTicksTimestep ==
    frame.tick > 0 =>
        /\ Has(frame.log, "compute_pass") =>
               /\ frame.updated
               /\ Has(frame.log, "write_params")
               /\ Pos(frame.log, "write_params") < Pos(frame.log, "compute_pass")
               /\ sim.params_buffer.dt = Min(frame.dt, MAX_DT)
        /\ Has(frame.log, "compute_pass") <=> HasPass(frame.batch, "compute")
        /\ ~Has(frame.log, "write_params") => ~HasPass(frame.batch, "compute")

\* the first running tick after a paused one: it writes its own dt of 10 ms,
\* then records the compute pass
C27_Witness ==
    /\ frame.tick > 1
    /\ frame.paused_before
    /\ frame.dt = 10
    /\ HasPass(frame.batch, "compute")
    /\ sim.params_buffer.dt = 10

----------------------------------------------------------------------------
(* Properties of the drag (SpecInput)                                      *)

\* C28: while exactly one of rotate-mode and pan-mode is active, the deltas
\* passed to the camera since the pointer-down that started the drag, plus
\* the unconsumed remainder mouse_pos - last_mouse_pos, add up to the
\* displacement of the pointer since that pointer-down.
C28_NoMotionLostInSingleMode ==
    (input.is_rotating # input.is_dragging) =>
        /\ hist.drag.passed[1] + PointerDelta[1] =
               input.mouse_pos[1] - hist.drag.origin[1]
        /\ hist.drag.passed[2] + PointerDelta[2] =
               input.mouse_pos[2] - hist.drag.origin[2]

\* C29: a tick that finds neither mode active makes no rotate or pan call and
\* leaves rotation and camera position alone; every pointer-down and
\* touch-start sets last_mouse_pos equal to mouse_pos; a tick that directly
\* follows a pointer-down or touch-start makes no rotate or pan call.
C29_NoModeNoCameraChangeNoJump ==
    [][ /\ (Ticked /\ ~input.is_rotating /\ ~input.is_dragging) =>
               /\ CallsOf("rotate") \cup CallsOf("pan") = {}
               /\ rotation' = rotation
               /\ camera'.position = camera.position
               /\ input'.last_mouse_pos = input.last_mouse_pos
        /\ (Delivered("mousedown") \/ Delivered("touchstart")) =>
               input'.last_mouse_pos = input'.mouse_pos
        /\ (Ticked /\ hist.ev \in {"mousedown", "touchstart"}) =>
               /\ CallsOf("rotate") \cup CallsOf("pan") = {}
               /\ rotation' = rotation
               /\ camera'.position = camera.position
      ]_vars

\* the pointer moved to (3, 0) with no mode active, the primary button went
\* down at (200, 200), and the tick that followed made no camera call
C29_Witness ==
    /\ hist.ev = "tick"
    /\ hist.ticks = 1
    /\ hist.events = 2
    /\ hist.moves = 1
    /\ hist.button = 0
    /\ input.is_rotating
    /\ input.mouse_pos = <<200, 200>>
    /\ input.last_mouse_pos = <<200, 200>>
    /\ frame.calls = <<>>
    /\ rotation = RotationNew

\* C30: a tick that finds rotate-mode active never calls Camera.pan; with both
\* modes active and a delta outside the dead-zone it makes exactly one rotate
\* call, with that delta, and advances last_mouse_pos to mouse_pos.
C30_RotateConsumesDeltaBeforePan ==
    [][ /\ (Ticked /\ input.is_rotating) =>
               /\ CallsOf("pan") = {}
               /\ camera'.position = camera.position
        /\ (Ticked /\ input.is_rotating /\ input.is_dragging
                   /\ PointerDelta # <<0, 0>>) =>
               /\ Cardinality(CallsOf("rotate")) = 1
               /\ \A i \in CallsOf("rotate") :
                      <<frame'.calls[i].a, frame'.calls[i].b>> = PointerDelta
               /\ input'.last_mouse_pos = input.mouse_pos
      ]_vars

\* both buttons held, the pointer moved by (3, 0), and the tick made the
\* rotate call only
C30_Witness ==
    /\ hist.ev = "tick"
    /\ hist.ticks = 1
    /\ hist.events = 3
    /\ input.is_rotating
    /\ input.is_dragging
    /\ frame.calls = <<[op |-> "rotate", a |-> 3, b |-> 0]>>
    /\ input.last_mouse_pos = <<3, 0>>
    /\ camera.position = CameraNew.position

\* C31: zoom_delta is overwritten, never added to: a wheel event sets it to
\* the negated scroll delta and a pinch-move with a baseline sets it to the
\* scaled change of the pinch distance, both whatever value was pending; every
\* other event leaves it alone; a tick calls Camera.zoom at most once, with
\* the pending value, so of several values written between two ticks only the
\* most recent one reaches the camera.
C31_ZoomDeltaLastWriterWins ==
    [][ /\ Delivered("wheel") => input'.zoom_delta = -(hist'.delta_y)
        /\ (Delivered("touchmove") /\ Len(hist'.touches) >= 2
                /\ input.last_pinch_distance > 0) =>
               input'.zoom_delta =
                   (GetPinchDistance(hist'.touches) - input.last_pinch_distance)
                       * PINCH_SENSITIVITY
        /\ (hist'.events = hist.events + 1 /\ hist'.zoom_sets = hist.zoom_sets) =>
               input'.zoom_delta = input.zoom_delta
        /\ Ticked =>
               /\ Cardinality(CallsOf("zoom")) <= 1
               /\ \A i \in CallsOf("zoom") :
                      /\ frame'.calls[i].a = input.zoom_delta
                      /\ camera'.scale = Zoom(camera, input.zoom_delta).scale
               /\ CallsOf("zoom") = {} => camera'.scale = camera.scale
      ]_vars

\* two wheel events before the first tick, the second with delta_y = -50.0:
\* the tick made one zoom call with 50.0 and the scale went from 1.0 to 1.05
C31_Witness ==
    /\ hist.ev = "tick"
    /\ hist.ticks = 1
    /\ hist.events = 2
    /\ hist.zoom_sets = 2
    /\ hist.zooms = 1
    /\ hist.delta_y = -500
    /\ frame.calls = <<[op |-> "zoom", a |-> 500, b |-> 0]>>
    /\ camera.scale = 1050
    /\ input.zoom_delta = 0

----------------------------------------------------------------------------
(* Properties of the projection (SpecCamera, SpecProjection)               *)

\* the aspect ratio is a positive finite number
AspectFinite == camera.aspect_ratio[1] > 0 /\ camera.aspect_ratio[2] > 0

\* the camera uniform has just been written from an orthographic camera with
\* a finite aspect ratio
OrthoWritten == call.op = "write_camera" /\ ~camera.is_3d /\ AspectFinite

\* 1000 / scale and (1000 / scale) / aspect_ratio, in 1/100 world unit
ThousandOverScale == 100000000 \div camera.scale
ThousandOverScaleOverAspect ==
    (ThousandOverScale * camera.aspect_ratio[2]) \div camera.aspect_ratio[1]

\* C24 as stated: in orthographic mode the region is position.x +/- 1000/scale
\* by position.y +/- (1000/scale)/aspect_ratio.
C24_HalfWidthIsThousandOverScale ==
    OrthoWritten =>
        /\ sim.camera_buffer.right = camera.position.x + ThousandOverScale
        /\ sim.camera_buffer.left = camera.position.x - ThousandOverScale
        /\ sim.camera_buffer.top
               = Finite(camera.position.y + ThousandOverScaleOverAspect)
        /\ sim.camera_buffer.bottom
               = Finite(camera.position.y - ThousandOverScaleOverAspect)

\* C24: in orthographic mode the visible region has width 1000/scale and
\* height (1000/scale)/aspect_ratio, centred on the position: it is
\* position.x +/- 500/scale by position.y +/- (500/scale)/aspect_ratio, with
\* near and far fixed at -1000 and 1000, for every scale in [0.01, 10].
C24_ViewWidthIsThousandOverScale ==
    OrthoWritten =>
        /\ camera.scale >= SCALE_MIN /\ camera.scale <= SCALE_MAX
        /\ sim.camera_buffer.mode = "ortho"
        /\ sim.camera_buffer.right = camera.position.x + (ThousandOverScale \div 2)
        /\ sim.camera_buffer.left = camera.position.x - (ThousandOverScale \div 2)
        /\ sim.camera_buffer.top
               = Finite(camera.position.y + (ThousandOverScaleOverAspect \div 2))
        /\ sim.camera_buffer.bottom
               = Finite(camera.position.y - (ThousandOverScaleOverAspect \div 2))
        /\ sim.camera_buffer.near = -100000
        /\ sim.camera_buffer.far = 100000

\* zoomed out to the lower clamp on a 4:3 surface, away from the origin: the
\* region written is 100000 wide and 75000 high
C24_Witness ==
    /\ OrthoWritten
    /\ camera.scale = SCALE_MIN
    /\ camera.aspect_ratio = <<4, 3>>
    /\ camera.position.x # 0
    /\ sim.camera_buffer.right - sim.camera_buffer.left = 10000000
    /\ sim.camera_buffer.top.v - sim.camera_buffer.bottom.v = 7500000

====
